---- MODULE Spec2Model ----
(***************************************************************************)
(* Model of the golf game of src/main.cpp: the tile map loader (setTiles), *)
(* the circle/rectangle test (checkCollision, distanceSquared,             *)
(* touchesWall), the dot (Dot::Dot, Dot::handleEvent, Dot::move,           *)
(* Dot::shiftColliders) and the main loop that drives them.                *)
(*                                                                         *)
(* Numbers.  The program's float fields (mPosX, mPosY, mVelX, mVelY and    *)
(* the Circle) are modelled in fixed point: a float value f is the integer *)
(* f * FP, and every float operation rounds toward zero to a multiple of   *)
(* 1/FP.  The program's int values (SDL_Rect fields, mouse coordinates,    *)
(* tile codes) are plain integers.  ToFloat and ToInt are the conversions  *)
(* between the two, ToInt truncating toward zero as the C++ cast does.     *)
(* The time step is the number of milliseconds the step timer returned;    *)
(* the program divides it by 1000.f.                                       *)
(***************************************************************************)
EXTENDS Integers, Sequences, FiniteSets, TLC

VARIABLES
    pc,             \* position of main: "load" (in setTiles), "loaded",
                    \* "run" (in the main loop) or "closed"
    mapFile,        \* the integer codes held by ./lazy.map, while the
                    \* stream of setTiles is alive
    tileSet,        \* the tiles setTiles created, in index order
    mapExists,      \* ./lazy.map can be opened
    tilesLoaded,    \* setTiles' success flag, the value it returns
    loadI, loadX, loadY,  \* setTiles' loop index and tile offsets
    mPosX, mPosY,   \* Dot position (fixed point)
    mVelX, mVelY,   \* Dot velocity (fixed point)
    mCollider,      \* Dot collision circle [x, y, r] (fixed point)
    mouseDown,      \* [x, y]: Dot::mouseX_down, Dot::mouseY_down
    mouseUp,        \* [x, y]: Dot::mouseX_up, Dot::mouseY_up
    pressed,        \* input source: a press is waiting for its release
    gesture,        \* input source: the pending press [x, y, rest]
    last,           \* the last operation, its inputs and intermediate values
    steps,          \* number of Dot::move calls so far
    gestures,       \* number of presses so far
    ccArgs,         \* arguments [a, b] of a call of checkCollision
    ccResult,       \* [called, value]: whether it returned, and what
    timer,          \* an LTimer: [mStartTicks, mPausedTicks, mPaused, mStarted]
    sdlTicks,       \* the value SDL_GetTicks returns (Uint32 milliseconds)
    tlast           \* the last LTimer call, the timer before it, and the
                    \* elapsed values an observer of the calls keeps

vars == << pc, mapFile, mapExists, tileSet, tilesLoaded, loadI, loadX,
           loadY, mPosX, mPosY, mVelX, mVelY,
           mCollider, mouseDown, mouseUp, pressed, gesture, last, steps,
           gestures, ccArgs, ccResult, timer, sdlTicks, tlast >>

TimerVars == << timer, sdlTicks, tlast >>

----------------------------------------------------------------------------
(* Program constants *)

SCREEN_WIDTH == 1280
SCREEN_HEIGHT == 960
TILE_WIDTH == 80
TILE_HEIGHT == 80
TOTAL_TILES == 192
TOTAL_TILE_SPRITES == 12
TILE_CENTER == 3
TILE_TOPLEFT == 11
DOT_WIDTH == 20
DOT_HEIGHT == 20
DampPercent == 99
SettleThreshold == 20
ImpulseScale == 2
MsPerSecond == 1000

(* Fixed-point resolution of the float model: units per 1.0 *)
FP == 100

(* Bounds of the exploration *)
MaxSteps == 2
MaxGestures == 2

----------------------------------------------------------------------------
(* Arithmetic *)

\* C++ integer division and float-to-int conversion round toward zero
TruncDiv(a, b) == IF a >= 0 THEN a \div b ELSE -((-a) \div b)

Abs(a) == IF a < 0 THEN -a ELSE a

ToFloat(i) == i * FP

ToInt(f) == TruncDiv(f, FP)

\* the product of two floats
FloatTimes(a, b) == TruncDiv(a * b, FP)

\* mVelX * timeStep, timeStep = ms / 1000.f
VelTimesStep(vel, ms) == TruncDiv(vel * ms, MsPerSecond)

\* mutant of Damp: the velocity is not damped
DampNone(vel) == vel

\* mVelX * 0.99
Damp(vel) == TruncDiv(vel * DampPercent, 100)

----------------------------------------------------------------------------
(* Tiles and the map loader *)

\* Tile::Tile: a tile is the offsets of its box and its type; the width and
\* height of every box are the tile constants
Tile(x, y, tileType) == << x, y, tileType >>

\* Tile::getType
getType(tile) == tile[3]

\* Tile::getBox
getBox(tile) ==
    [x |-> tile[1], y |-> tile[2], w |-> TILE_WIDTH, h |-> TILE_HEIGHT]

\* mutant of ValidTileType: the upper bound is tested with <=
ValidTileTypeInclusive(tileType) ==
    (tileType >= 0) /\ (tileType <= TOTAL_TILE_SPRITES)

\* setTiles, line 890: the code is a valid tile number
ValidTileType(tileType) == (tileType >= 0) /\ (tileType < TOTAL_TILE_SPRITES)

----------------------------------------------------------------------------
(* Collision *)

\* distanceSquared: the parameters are int, so float arguments are truncated
distanceSquared(x1, y1, x2, y2) ==
    LET deltaX == ToInt(x2) - ToInt(x1)
        deltaY == ToInt(y2) - ToInt(y1)
    IN  deltaX * deltaX + deltaY * deltaY

\* mutant of checkCollision: a closest point at exactly the radius collides
checkCollisionInclusive(a, b) ==
    LET cX == IF a.x < ToFloat(b.x) THEN ToFloat(b.x)
              ELSE IF a.x > ToFloat(b.x + b.w) THEN ToFloat(b.x + b.w)
              ELSE a.x
        cY == IF a.y < ToFloat(b.y) THEN ToFloat(b.y)
              ELSE IF a.y > ToFloat(b.y + b.h) THEN ToFloat(b.y + b.h)
              ELSE a.y
    IN  ToFloat(distanceSquared(a.x, a.y, cX, cY)) <= FloatTimes(a.r, a.r)

\* mutant of checkCollision: the closest y offset is never clamped
checkCollisionNoYClamp(a, b) ==
    LET cX == IF a.x < ToFloat(b.x) THEN ToFloat(b.x)
              ELSE IF a.x > ToFloat(b.x + b.w) THEN ToFloat(b.x + b.w)
              ELSE a.x
        cY == a.y
    IN  ToFloat(distanceSquared(a.x, a.y, cX, cY)) < FloatTimes(a.r, a.r)

\* checkCollision: a is a Circle (fixed point), b an SDL_Rect (int)
checkCollision(a, b) ==
    LET cX == IF a.x < ToFloat(b.x) THEN ToFloat(b.x)
              ELSE IF a.x > ToFloat(b.x + b.w) THEN ToFloat(b.x + b.w)
              ELSE a.x
        cY == IF a.y < ToFloat(b.y) THEN ToFloat(b.y)
              ELSE IF a.y > ToFloat(b.y + b.h) THEN ToFloat(b.y + b.h)
              ELSE a.y
    IN  ToFloat(distanceSquared(a.x, a.y, cX, cY)) < FloatTimes(a.r, a.r)

\* the wall test of touchesWall on one tile
IsWall(tile) ==
    (getType(tile) >= TILE_CENTER) /\ (getType(tile) <= TILE_TOPLEFT)

\* touchesWall: some wall tile's box collides with the circle
touchesWall(circle, tiles) ==
    \E i \in 1..Len(tiles) :
        IsWall(tiles[i]) /\ checkCollision(circle, getBox(tiles[i]))

----------------------------------------------------------------------------
(* The dot *)

\* mutant of shiftColliders: only the x of the centre follows the position
shiftCollidersXOnly(posX, posY, collider) ==
    [collider EXCEPT !.x = ToFloat(ToInt(posX))]

\* Dot::shiftColliders: the centre is the position converted to int
shiftColliders(posX, posY, collider) ==
    [collider EXCEPT !.x = ToFloat(ToInt(posX)), !.y = ToFloat(ToInt(posY))]

\* mutant of MoveX: the dot stops at an edge instead of bouncing
MoveXStopAtEdge(posX, posY, velX, collider, tiles, ms) ==
    LET fooX == posX
        p1   == posX + VelTimesStep(velX, ms)
        v1   == Damp(velX)
        c1   == shiftColliders(p1, posY, collider)
    IN  IF p1 < ToFloat(DOT_WIDTH \div 2)
        THEN [pos |-> ToFloat(DOT_WIDTH \div 2), vel |-> 0]
        ELSE IF p1 > ToFloat(SCREEN_WIDTH - (DOT_WIDTH \div 2))
        THEN [pos |-> ToFloat(SCREEN_WIDTH - (DOT_WIDTH \div 2)), vel |-> 0]
        ELSE IF touchesWall(c1, tiles)
        THEN [pos |-> fooX, vel |-> -v1]
        ELSE [pos |-> p1, vel |-> v1]

\* mutant of MoveX: a wall hit negates the velocity but keeps the new x
MoveXNoRevert(posX, posY, velX, collider, tiles, ms) ==
    LET p1   == posX + VelTimesStep(velX, ms)
        v1   == Damp(velX)
        c1   == shiftColliders(p1, posY, collider)
    IN  IF p1 < ToFloat(DOT_WIDTH \div 2)
        THEN [pos |-> ToFloat(DOT_WIDTH \div 2), vel |-> -v1]
        ELSE IF p1 > ToFloat(SCREEN_WIDTH - (DOT_WIDTH \div 2))
        THEN [pos |-> ToFloat(SCREEN_WIDTH - (DOT_WIDTH \div 2)), vel |-> -v1]
        ELSE IF touchesWall(c1, tiles)
        THEN [pos |-> p1, vel |-> -v1]
        ELSE [pos |-> p1, vel |-> v1]

\* The horizontal half of Dot::move (lines 514-543): integrate, damp, then
\* resolve against the left edge, the right edge and the walls, in that order
MoveX(posX, posY, velX, collider, tiles, ms) ==
    LET fooX == posX
        p1   == posX + VelTimesStep(velX, ms)
        v1   == Damp(velX)
        c1   == shiftColliders(p1, posY, collider)
    IN  IF p1 < ToFloat(DOT_WIDTH \div 2)
        THEN [pos |-> ToFloat(DOT_WIDTH \div 2), vel |-> -v1]
        ELSE IF p1 > ToFloat(SCREEN_WIDTH - (DOT_WIDTH \div 2))
        THEN [pos |-> ToFloat(SCREEN_WIDTH - (DOT_WIDTH \div 2)), vel |-> -v1]
        ELSE IF touchesWall(c1, tiles)
        THEN [pos |-> fooX, vel |-> -v1]
        ELSE [pos |-> p1, vel |-> v1]

\* mutant of MoveY: the bottom edge is not tested
MoveYNoBottomClamp(posX, posY, velY, collider, tiles, ms) ==
    LET fooY == posY
        p1   == posY + VelTimesStep(velY, ms)
        v1   == Damp(velY)
        c1   == shiftColliders(posX, p1, collider)
    IN  IF p1 < ToFloat(DOT_WIDTH \div 2)
        THEN [pos |-> ToFloat(DOT_WIDTH \div 2), vel |-> -v1]
        ELSE IF touchesWall(c1, tiles)
        THEN [pos |-> fooY, vel |-> -v1]
        ELSE [pos |-> p1, vel |-> v1]

\* mutant of MoveY: the walls are tested before the edges
MoveYWallFirst(posX, posY, velY, collider, tiles, ms) ==
    LET fooY == posY
        p1   == posY + VelTimesStep(velY, ms)
        v1   == Damp(velY)
        c1   == shiftColliders(posX, p1, collider)
    IN  IF touchesWall(c1, tiles)
        THEN [pos |-> fooY, vel |-> -v1]
        ELSE IF p1 < ToFloat(DOT_WIDTH \div 2)
        THEN [pos |-> ToFloat(DOT_WIDTH \div 2), vel |-> -v1]
        ELSE IF p1 > ToFloat(SCREEN_HEIGHT - (DOT_WIDTH \div 2))
        THEN [pos |-> ToFloat(SCREEN_HEIGHT - (DOT_WIDTH \div 2)), vel |-> -v1]
        ELSE [pos |-> p1, vel |-> v1]

\* The vertical half of Dot::move (lines 545-566)
MoveY(posX, posY, velY, collider, tiles, ms) ==
    LET fooY == posY
        p1   == posY + VelTimesStep(velY, ms)
        v1   == Damp(velY)
        c1   == shiftColliders(posX, p1, collider)
    IN  IF p1 < ToFloat(DOT_WIDTH \div 2)
        THEN [pos |-> ToFloat(DOT_WIDTH \div 2), vel |-> -v1]
        ELSE IF p1 > ToFloat(SCREEN_HEIGHT - (DOT_WIDTH \div 2))
        THEN [pos |-> ToFloat(SCREEN_HEIGHT - (DOT_WIDTH \div 2)), vel |-> -v1]
        ELSE IF touchesWall(c1, tiles)
        THEN [pos |-> fooY, vel |-> -v1]
        ELSE [pos |-> p1, vel |-> v1]

\* mutant of Settle: the threshold is tested on the combined magnitude
SettleCombined(velX, velY) ==
    IF velX * velX + velY * velY
          < ToFloat(SettleThreshold) * ToFloat(SettleThreshold)
    THEN [x |-> 0, y |-> 0]
    ELSE [x |-> velX, y |-> velY]

\* The end of Dot::move (lines 568-572): both components are zeroed when
\* each is strictly inside (-20, 20)
Settle(velX, velY) ==
    IF velX < ToFloat(SettleThreshold) /\ velX > -ToFloat(SettleThreshold)
       /\ velY < ToFloat(SettleThreshold) /\ velY > -ToFloat(SettleThreshold)
    THEN [x |-> 0, y |-> 0]
    ELSE [x |-> velX, y |-> velY]

\* The gate of Dot::handleEvent (line 486)
AtRest(velX, velY) == velX = 0 /\ velY = 0

\* The impulse of a release (lines 498-504): changeX * 2 as a float
Impulse(down, up) == ToFloat(down - up) * ImpulseScale

\* Dot::Dot(x, y): position, collision circle and velocity; the four mouse
\* fields are left uninitialized
Dot(x, y) ==
    [posX |-> ToFloat(x), posY |-> ToFloat(y), velX |-> 0, velY |-> 0,
     collider |-> shiftColliders(ToFloat(x), ToFloat(y),
                     [x |-> ToFloat(x), y |-> ToFloat(y),
                      r |-> ToFloat(DOT_WIDTH \div 2)])]

\* Dot::handleEvent on event e = [type, x, y]; d is the dot's velocity and
\* mouse fields [velX, velY, down, up]
handleEvent(e, d) ==
    IF d.velX = 0 /\ d.velY = 0
    THEN IF e.type = "MOUSEBUTTONDOWN"
         THEN [d EXCEPT !.down = [x |-> e.x, y |-> e.y]]
         ELSE IF e.type = "MOUSEBUTTONUP"
         THEN [d EXCEPT !.up = [x |-> e.x, y |-> e.y],
                        !.velX = d.velX + Impulse(d.down.x, e.x),
                        !.velY = d.velY + Impulse(d.down.y, e.y)]
         ELSE d
    ELSE d

\* Dot::move, lines 566-572: with both halves resolved (hx, hy) the collider
\* is shifted and the settle rule applied.  res is the velocity after both
\* halves, before the settle rule
MoveEnd(hx, hy, collider) ==
    [posX |-> hx.pos, posY |-> hy.pos,
     velX |-> Settle(hx.vel, hy.vel).x, velY |-> Settle(hx.vel, hy.vel).y,
     collider |-> shiftColliders(hx.pos, hy.pos, collider),
     res |-> [x |-> hx.vel, y |-> hy.vel]]

\* Dot::move, lines 543-572: with the horizontal half resolved (hx) the
\* collider is shifted and the vertical half follows
MoveAfterX(hx, posY, velY, collider, tiles, ms) ==
    MoveEnd(hx,
            MoveY(hx.pos, posY, velY,
                  shiftColliders(hx.pos, posY, collider), tiles, ms),
            collider)

\* Dot::move: the horizontal half, then the vertical half, then the settle
\* rule
move(posX, posY, velX, velY, collider, tiles, ms) ==
    MoveAfterX(MoveX(posX, posY, velX, collider, tiles, ms),
               posY, velY, collider, tiles, ms)

----------------------------------------------------------------------------
(* Inputs *)

\* Tile codes of three maps, by tile index 0..191: no wall at all; walls
\* right of and below the start tile and along the far edges; the start
\* tile itself a wall
OpenCodes == [i \in 1..TOTAL_TILES |-> (i - 1) % TILE_CENTER]

WallIndices == {1, 16, 176}

WallCodes ==
    [i \in 1..TOTAL_TILES |->
        IF (i - 1) \in WallIndices
        THEN TILE_CENTER + ((i - 1) % (TOTAL_TILE_SPRITES - TILE_CENTER))
        ELSE (i - 1) % TILE_CENTER]

StartInWallCodes ==
    [i \in 1..TOTAL_TILES |-> IF i = 1 THEN TILE_TOPLEFT ELSE WallCodes[i]]

WellFormedFiles == {OpenCodes, WallCodes, StartInWallCodes}

ShortLens == {0, 100, TOTAL_TILES - 1}

BadCodes == {-1, TOTAL_TILE_SPRITES}

BadPlaces == {1, 17, TOTAL_TILES}

\* too few codes, a code out of range, and (from one map) too many codes
MalformedFiles ==
    {SubSeq(f, 1, n) : f \in WellFormedFiles, n \in ShortLens}
    \cup {[f EXCEPT ![p] = c] : f \in WellFormedFiles, p \in BadPlaces,
                                c \in BadCodes}
    \cup {Append(WallCodes, c) : c \in {0} \cup BadCodes}
    \cup {SubSeq(Append(OpenCodes, 0), 1, n) : n \in {TOTAL_TILES - 2}}

MapFiles == WellFormedFiles \cup MalformedFiles

\* Mouse positions of press and release events
MousePoints == {<< 100, 100 >>, << 110, 100 >>, << 100, 111 >>, << 110, 110 >>}

\* Values the step timer returns, in milliseconds
StepTicks == {0, 4000, 43000}

\* What the uninitialized mouse fields may hold
Indeterminate == {[x |-> 0, y |-> 0], [x |-> 333, y |-> -7]}

NoEvent == [type |-> "none", x |-> 0, y |-> 0]

NoDot == [posX |-> 0, posY |-> 0, velX |-> 0, velY |-> 0,
          collider |-> [x |-> 0, y |-> 0, r |-> 0]]

----------------------------------------------------------------------------
(* LTimer.  Its tick fields are Uint32: sums and differences wrap.  The
   model keeps the low TickWidth bits of every tick value, so that the
   counter wraps the way the 32-bit one does, within the numbers TLC holds *)

TickWidth == 16

Uint32Range == 2 ^ TickWidth

Uint32(n) == n % Uint32Range

\* LTimer::LTimer
LTimer == [mStartTicks |-> 0, mPausedTicks |-> 0,
           mPaused |-> FALSE, mStarted |-> FALSE]

\* LTimer::start; now is the value of SDL_GetTicks
start(t, now) == [mStartTicks |-> now, mPausedTicks |-> 0,
                  mPaused |-> FALSE, mStarted |-> TRUE]

\* LTimer::stop
stop(t) == [mStartTicks |-> 0, mPausedTicks |-> 0,
            mPaused |-> FALSE, mStarted |-> FALSE]

\* LTimer::pause
pause(t, now) ==
    IF t.mStarted /\ ~t.mPaused
    THEN [t EXCEPT !.mPaused = TRUE,
                   !.mPausedTicks = Uint32(now - t.mStartTicks),
                   !.mStartTicks = 0]
    ELSE t

\* unpause that restarts the count at the moment of the call
unpauseFromNow(t, now) ==
    IF t.mStarted /\ t.mPaused
    THEN [t EXCEPT !.mPaused = FALSE,
                   !.mStartTicks = now,
                   !.mPausedTicks = 0]
    ELSE t

\* LTimer::unpause
unpause(t, now) ==
    IF t.mStarted /\ t.mPaused
    THEN [t EXCEPT !.mPaused = FALSE,
                   !.mStartTicks = Uint32(now - t.mPausedTicks),
                   !.mPausedTicks = 0]
    ELSE t

\* LTimer::getTicks
getTicks(t, now) ==
    IF t.mStarted
    THEN IF t.mPaused THEN t.mPausedTicks ELSE Uint32(now - t.mStartTicks)
    ELSE 0

\* LTimer::isStarted and LTimer::isPaused
isStarted(t) == t.mStarted

isPaused(t) == t.mPaused /\ t.mStarted

\* what an observer of the calls has seen: no call yet
NoCall == [op |-> "none", pre |-> LTimer, atPause |-> 0, since |-> 0,
           resumed |-> FALSE, advanced |-> 0]

\* main, line 1045: stepTimer is constructed; the model of main draws the
\* time steps from StepTicks and leaves the timer as constructed
TimerIdle == timer = LTimer /\ sdlTicks = 0 /\ tlast = NoCall

----------------------------------------------------------------------------
(* The program *)

Init ==
    /\ pc = "load"
    /\ \/ mapExists = TRUE /\ mapFile \in MapFiles
       \/ mapExists = FALSE /\ mapFile = << >>
    /\ tileSet = << >>
    /\ tilesLoaded = TRUE
    /\ loadI = 0 /\ loadX = 0 /\ loadY = 0
    /\ mPosX = 0 /\ mPosY = 0 /\ mVelX = 0 /\ mVelY = 0
    /\ mCollider = NoDot.collider
    /\ mouseDown = [x |-> 0, y |-> 0]
    /\ mouseUp = [x |-> 0, y |-> 0]
    /\ pressed = FALSE
    /\ gesture = [x |-> 0, y |-> 0, rest |-> FALSE]
    /\ last = [op |-> "none", pre |-> NoDot, ms |-> 0,
               res |-> [x |-> 0, y |-> 0], e |-> NoEvent]
    /\ steps = 0
    /\ gestures = 0
    /\ ccArgs = [a |-> NoDot.collider, b |-> getBox(Tile(0, 0, 0))]
    /\ ccResult = [called |-> FALSE, value |-> FALSE]
    /\ TimerIdle

DotState == [posX |-> mPosX, posY |-> mPosY, velX |-> mVelX, velY |-> mVelY,
             collider |-> mCollider]

DotVars == << mPosX, mPosY, mVelX, mVelY, mCollider, mouseDown, mouseUp,
              pressed, gesture, last, steps, gestures >>

\* setTiles, lines 861-868: the map file cannot be opened
OpenFails ==
    /\ pc = "load" /\ ~mapExists
    /\ tilesLoaded' = FALSE
    /\ pc' = "loaded"
    /\ UNCHANGED << mapFile, mapExists, tileSet, loadI, loadX, loadY,
                    DotVars, ccArgs, ccResult, TimerVars >>

\* setTiles, lines 872-915: one iteration of the loop.  The stream holds the
\* codes of mapFile after the first loadI; reading past them fails
ReadTile ==
    /\ pc = "load" /\ mapExists /\ loadI < TOTAL_TILES
    /\ IF loadI >= Len(mapFile)
       THEN /\ tilesLoaded' = FALSE
            /\ pc' = "loaded"
            /\ UNCHANGED << tileSet, loadI, loadX, loadY >>
       ELSE LET tileType == mapFile[loadI + 1]
            IN  IF ValidTileType(tileType)
                THEN /\ tileSet' = Append(tileSet, Tile(loadX, loadY, tileType))
                     /\ loadI' = loadI + 1
                     /\ IF loadX + TILE_WIDTH >= SCREEN_WIDTH
                        THEN loadX' = 0 /\ loadY' = loadY + TILE_HEIGHT
                        ELSE loadX' = loadX + TILE_WIDTH /\ loadY' = loadY
                     /\ UNCHANGED << tilesLoaded, pc >>
                ELSE /\ tilesLoaded' = FALSE
                     /\ pc' = "loaded"
                     /\ UNCHANGED << tileSet, loadI, loadX, loadY >>
    /\ UNCHANGED << mapFile, mapExists, DotVars, ccArgs, ccResult, TimerVars >>

\* setTiles, lines 872 and 982-986: the loop ends after TOTAL_TILES
\* iterations, the file is closed and the flag is returned
ReadDone ==
    /\ pc = "load" /\ mapExists /\ loadI >= TOTAL_TILES
    /\ pc' = "loaded"
    /\ UNCHANGED << mapFile, mapExists, tileSet, tilesLoaded, loadI, loadX,
                    loadY, DotVars, ccArgs, ccResult, TimerVars >>

\* main, lines 1029-1042: loadMedia fails when a texture or the map failed
\* to load; on success the dot is constructed at (DOT_WIDTH / 2,
\* DOT_HEIGHT / 2), otherwise main closes
LoadMedia ==
    /\ pc = "loaded"
    /\ \E texturesOk \in BOOLEAN :
        LET d == Dot(DOT_WIDTH \div 2, DOT_HEIGHT \div 2)
        IN  IF texturesOk /\ tilesLoaded
            THEN /\ pc' = "run"
                 /\ mPosX' = d.posX /\ mPosY' = d.posY
                 /\ mVelX' = d.velX /\ mVelY' = d.velY
                 /\ mCollider' = d.collider
                 /\ mouseDown' \in Indeterminate
                 /\ mouseUp' \in Indeterminate
            ELSE /\ pc' = "closed"
                 /\ UNCHANGED << mPosX, mPosY, mVelX, mVelY, mCollider,
                                 mouseDown, mouseUp >>
    /\ last' = [last EXCEPT !.op = "load"]
    /\ mapFile' = << >>
    /\ UNCHANGED << mapExists, tileSet, tilesLoaded, loadI, loadX,
                    loadY, pressed, gesture, steps, gestures, ccArgs,
                    ccResult, TimerVars >>

\* main, lines 1050-1060: one polled event is handed to Dot::handleEvent
Handle(e) ==
    LET d == handleEvent(e, [velX |-> mVelX, velY |-> mVelY,
                             down |-> mouseDown, up |-> mouseUp])
    IN  /\ mVelX' = d.velX /\ mVelY' = d.velY
        /\ mouseDown' = d.down /\ mouseUp' = d.up
        /\ last' = [op |-> "event", pre |-> DotState, ms |-> 0,
                    res |-> [x |-> 0, y |-> 0], e |-> e]
        /\ UNCHANGED << pc, mapFile, mapExists, tileSet, tilesLoaded, loadI,
                        loadX, loadY, mPosX, mPosY, mCollider, steps,
                        ccArgs, ccResult, TimerVars >>

\* the input source reports a press
MouseButtonDown ==
    /\ pc = "run" /\ ~pressed /\ gestures < MaxGestures
    /\ \E p \in MousePoints :
        /\ Handle([type |-> "MOUSEBUTTONDOWN", x |-> p[1], y |-> p[2]])
        /\ gesture' = [x |-> p[1], y |-> p[2], rest |-> AtRest(mVelX, mVelY)]
    /\ pressed' = TRUE
    /\ gestures' = gestures + 1

\* the input source reports the release that matches the pending press
MouseButtonUp ==
    /\ pc = "run" /\ pressed
    /\ \E p \in MousePoints :
        Handle([type |-> "MOUSEBUTTONUP", x |-> p[1], y |-> p[2]])
    /\ pressed' = FALSE
    /\ UNCHANGED << gesture, gestures >>

\* main, lines 1062-1068: the time step is read and the dot is moved
Step ==
    /\ pc = "run" /\ steps < MaxSteps
    /\ \E ms \in StepTicks :
        \E m \in {move(mPosX, mPosY, mVelX, mVelY, mCollider, tileSet, ms)} :
            /\ mPosX' = m.posX /\ mPosY' = m.posY
            /\ mVelX' = m.velX /\ mVelY' = m.velY
            /\ mCollider' = m.collider
            /\ last' = [op |-> "move", pre |-> DotState, ms |-> ms,
                        res |-> m.res, e |-> NoEvent]
    /\ steps' = steps + 1
    /\ UNCHANGED << pc, mapFile, mapExists, tileSet, tilesLoaded, loadI,
                    loadX, loadY, mouseDown, mouseUp, pressed, gesture,
                    gestures, ccArgs, ccResult, TimerVars >>

\* main, lines 1053-1056 and 1089: a quit event ends the loop; the dot goes
\* out of scope
Quit ==
    /\ pc = "run"
    /\ pc' = "closed"
    /\ mPosX' = 0 /\ mPosY' = 0 /\ mVelX' = 0 /\ mVelY' = 0
    /\ mCollider' = NoDot.collider
    /\ mouseDown' = [x |-> 0, y |-> 0]
    /\ mouseUp' = [x |-> 0, y |-> 0]
    /\ pressed' = FALSE
    /\ gesture' = [x |-> 0, y |-> 0, rest |-> FALSE]
    /\ last' = [op |-> "quit", pre |-> NoDot, ms |-> 0,
                res |-> [x |-> 0, y |-> 0], e |-> NoEvent]
    /\ steps' = 0
    /\ gestures' = 0
    /\ UNCHANGED << mapFile, mapExists, tileSet, tilesLoaded, loadI, loadX,
                    loadY, ccArgs, ccResult, TimerVars >>

Next == OpenFails \/ ReadTile \/ ReadDone \/ LoadMedia \/ MouseButtonDown \/ MouseButtonUp \/ Step \/ Quit

Spec == Init /\ [][Next]_vars

TypeOK ==
    /\ pc \in {"load", "loaded", "run", "closed"}
    /\ tilesLoaded \in BOOLEAN
    /\ pressed \in BOOLEAN
    /\ steps \in 0..MaxSteps
    /\ gestures \in 0..MaxGestures

----------------------------------------------------------------------------
(* checkCollision on its own: a circle and a rectangle are chosen, then the
   function is called.  The circles are those the program builds: the centre
   holds whole numbers (Dot::Dot and Dot::shiftColliders store int values)
   and the radius is DOT_WIDTH / 2. *)

\* how far around the rectangle's edges the circle centres reach
CCMargin == 12

CCRects == {getBox(Tile(80, 80, 0)), [x |-> 85, y |-> 150, w |-> 70, h |-> 5]}

CCCoords ==
    ((80 - CCMargin)..(80 + CCMargin)) \cup {120, 152}
        \cup ((160 - CCMargin)..(160 + CCMargin))

CCRadii == {DOT_WIDTH \div 2}

CCCircles ==
    {[x |-> ToFloat(cx), y |-> ToFloat(cy), r |-> ToFloat(cr)] :
        cx \in CCCoords, cy \in CCCoords, cr \in CCRadii}

InitCC ==
    /\ pc = "check"
    /\ mapExists = FALSE /\ mapFile = << >>
    /\ tileSet = << >>
    /\ tilesLoaded = TRUE
    /\ loadI = 0 /\ loadX = 0 /\ loadY = 0
    /\ mPosX = 0 /\ mPosY = 0 /\ mVelX = 0 /\ mVelY = 0
    /\ mCollider = NoDot.collider
    /\ mouseDown = [x |-> 0, y |-> 0]
    /\ mouseUp = [x |-> 0, y |-> 0]
    /\ pressed = FALSE
    /\ gesture = [x |-> 0, y |-> 0, rest |-> FALSE]
    /\ last = [op |-> "none", pre |-> NoDot, ms |-> 0,
               res |-> [x |-> 0, y |-> 0], e |-> NoEvent]
    /\ steps = 0
    /\ gestures = 0
    /\ ccArgs \in [a : CCCircles, b : CCRects]
    /\ ccResult = [called |-> FALSE, value |-> FALSE]
    /\ TimerIdle

CallCheckCollision ==
    /\ pc = "check" /\ ~ccResult.called
    /\ ccResult' = [called |-> TRUE,
                    value |-> checkCollision(ccArgs.a, ccArgs.b)]
    /\ UNCHANGED << pc, mapFile, mapExists, tileSet, tilesLoaded, loadI,
                    loadX, loadY, DotVars, ccArgs, TimerVars >>

NextCC == CallCheckCollision

SpecCC == InitCC /\ [][NextCC]_vars

----------------------------------------------------------------------------
(* LTimer on its own: a timer is constructed, then start, stop, pause and
   unpause are called in any order while SDL's tick counter advances.  The
   observer in tlast keeps the value getTicks had at the last pause that took
   effect and the ticks that went by since the unpause that followed it. *)

\* total advance of the tick counter that is explored
MaxAdvance == 6

\* the tick counter when the timer is constructed: just after SDL started,
\* and just before the Uint32 counter wraps
TimerEpochs == {0, Uint32Range - 2}

TickDeltas == {1, 3}

InitTimer ==
    /\ pc = "timer"
    /\ mapExists = FALSE /\ mapFile = << >>
    /\ tileSet = << >>
    /\ tilesLoaded = TRUE
    /\ loadI = 0 /\ loadX = 0 /\ loadY = 0
    /\ mPosX = 0 /\ mPosY = 0 /\ mVelX = 0 /\ mVelY = 0
    /\ mCollider = NoDot.collider
    /\ mouseDown = [x |-> 0, y |-> 0]
    /\ mouseUp = [x |-> 0, y |-> 0]
    /\ pressed = FALSE
    /\ gesture = [x |-> 0, y |-> 0, rest |-> FALSE]
    /\ last = [op |-> "none", pre |-> NoDot, ms |-> 0,
               res |-> [x |-> 0, y |-> 0], e |-> NoEvent]
    /\ steps = 0
    /\ gestures = 0
    /\ ccArgs = [a |-> NoDot.collider, b |-> getBox(Tile(0, 0, 0))]
    /\ ccResult = [called |-> FALSE, value |-> FALSE]
    /\ timer = LTimer
    /\ sdlTicks \in TimerEpochs
    /\ tlast = NoCall

NotTimerVars == << pc, mapFile, mapExists, tileSet, tilesLoaded, loadI, loadX,
                   loadY, DotVars, ccArgs, ccResult >>

\* SDL_GetTicks moves on between two calls
TickAdvance ==
    /\ pc = "timer"
    /\ \E d \in TickDeltas :
        /\ tlast.advanced + d <= MaxAdvance
        /\ sdlTicks' = Uint32(sdlTicks + d)
        /\ tlast' = [tlast EXCEPT
                        !.op = "tick",
                        !.pre = timer,
                        !.advanced = @ + d,
                        !.since = IF tlast.resumed THEN @ + d ELSE @]
    /\ UNCHANGED << timer, NotTimerVars >>

CallStart ==
    /\ pc = "timer"
    /\ timer' = start(timer, sdlTicks)
    /\ tlast' = [tlast EXCEPT !.op = "start", !.pre = timer, !.atPause = 0,
                              !.since = 0, !.resumed = FALSE]
    /\ UNCHANGED << sdlTicks, NotTimerVars >>

CallStop ==
    /\ pc = "timer"
    /\ timer' = stop(timer)
    /\ tlast' = [tlast EXCEPT !.op = "stop", !.pre = timer, !.atPause = 0,
                              !.since = 0, !.resumed = FALSE]
    /\ UNCHANGED << sdlTicks, NotTimerVars >>

\* the observer notes the elapsed value when a running timer is paused
CallPause ==
    /\ pc = "timer"
    /\ timer' = pause(timer, sdlTicks)
    /\ tlast' = IF isStarted(timer) /\ ~isPaused(timer)
                THEN [tlast EXCEPT !.op = "pause", !.pre = timer,
                                   !.atPause = getTicks(timer, sdlTicks),
                                   !.since = 0, !.resumed = FALSE]
                ELSE [tlast EXCEPT !.op = "pause", !.pre = timer]
    /\ UNCHANGED << sdlTicks, NotTimerVars >>

\* the observer counts the ticks from the unpause of a paused timer
CallUnpause ==
    /\ pc = "timer"
    /\ timer' = unpause(timer, sdlTicks)
    /\ tlast' = IF isPaused(timer)
                THEN [tlast EXCEPT !.op = "unpause", !.pre = timer,
                                   !.since = 0, !.resumed = TRUE]
                ELSE [tlast EXCEPT !.op = "unpause", !.pre = timer]
    /\ UNCHANGED << sdlTicks, NotTimerVars >>

NextTimer == TickAdvance \/ CallStart \/ CallStop \/ CallPause \/ CallUnpause

SpecTimer == InitTimer /\ [][NextTimer]_vars

----------------------------------------------------------------------------
(* The main loop left to run: main calls Dot::move once in every iteration
   (lines 1047-1068) for as long as the window is open, so the step is taken
   again and again; the input source sends at most MaxRestGestures presses *)

MaxRestGestures == 2

\* the time step of every iteration, in milliseconds
RestTicks == {4000}

RestButtonDown ==
    /\ pc = "run" /\ ~pressed /\ gestures < MaxRestGestures
    /\ \E p \in MousePoints :
        /\ Handle([type |-> "MOUSEBUTTONDOWN", x |-> p[1], y |-> p[2]])
        /\ gesture' = [x |-> p[1], y |-> p[2], rest |-> AtRest(mVelX, mVelY)]
    /\ pressed' = TRUE
    /\ gestures' = gestures + 1

RestButtonUp ==
    /\ pc = "run" /\ pressed
    /\ \E p \in MousePoints :
        Handle([type |-> "MOUSEBUTTONUP", x |-> p[1], y |-> p[2]])
    /\ pressed' = FALSE
    /\ UNCHANGED << gesture, gestures >>

\* main, lines 1062-1068, in any iteration of the loop
RestStep ==
    /\ pc = "run"
    /\ \E ms \in RestTicks :
        \E m \in {move(mPosX, mPosY, mVelX, mVelY, mCollider, tileSet, ms)} :
            /\ mPosX' = m.posX /\ mPosY' = m.posY
            /\ mVelX' = m.velX /\ mVelY' = m.velY
            /\ mCollider' = m.collider
            /\ last' = [op |-> "move", pre |-> DotState, ms |-> ms,
                        res |-> m.res, e |-> NoEvent]
    /\ UNCHANGED << pc, mapFile, mapExists, tileSet, tilesLoaded, loadI,
                    loadX, loadY, mouseDown, mouseUp, pressed, gesture,
                    steps, gestures, ccArgs, ccResult, TimerVars >>

NextRest == OpenFails \/ ReadTile \/ ReadDone \/ LoadMedia \/ RestButtonDown \/ RestButtonUp \/ RestStep \/ Quit

\* a step of the main loop that called Dot::move: of the actions of NextRest
\* only RestStep takes such a step
MoveStep == pc = "run" /\ pc' = "run" /\ last'.op = "move"

\* Weak fairness of RestStep, written out.  RestStep is enabled exactly while
\* main is in its loop, so its weak fairness says: the loop is left again and
\* again, or Dot::move is called again and again
RestFairness == []<>(pc # "run") \/ []<><< MoveStep >>_vars

SpecRest == Init /\ [][NextRest]_vars /\ RestFairness

----------------------------------------------------------------------------
(* Properties *)

Running == pc = "run"

Moved == pc = "run" /\ last.op = "move"

Released == pc = "run" /\ last.op = "event" /\ last.e.type = "MOUSEBUTTONUP"

\* the coordinates the last move integrated to, before resolution
IntegratedX == last.pre.posX + VelTimesStep(last.pre.velX, last.ms)

IntegratedY == last.pre.posY + VelTimesStep(last.pre.velY, last.ms)

\* the circles the last move handed to touchesWall: horizontally at the
\* integrated x and the old y, vertically at the resolved x and integrated y
TestedCircleX == shiftColliders(IntegratedX, last.pre.posY, last.pre.collider)

TestedCircleY == shiftColliders(mPosX, IntegratedY, last.pre.collider)

InsideX(x) == x >= 10 * FP /\ x <= 1270 * FP

InsideY(y) == y >= 10 * FP /\ y <= 950 * FP

BelowThreshold(v) == Abs(v) < 20 * FP

\* C1: once the dot is constructed, and after every call of Dot::move and
\* every mouse event, 10 <= x <= 1270 and 10 <= y <= 950
C1_PositionInPlayfield == Running => InsideX(mPosX) /\ InsideY(mPosY)

\* a move whose vertical integration left the playfield at the bottom and
\* was clamped
C1_Witness == Moved /\ IntegratedY > 950 * FP /\ mPosY = 950 * FP

\* C2: a release changes the velocity if and only if the dot was at rest
\* when the matching press was observed, and then the velocity becomes
\* (press - release) * 2; a gesture pressed while moving changes nothing
C2_GateAtPress ==
    Released =>
        IF gesture.rest
        THEN /\ mVelX = (gesture.x - last.e.x) * 2 * FP
             /\ mVelY = (gesture.y - last.e.y) * 2 * FP
        ELSE mVelX = last.pre.velX /\ mVelY = last.pre.velY

\* C3: after every call of Dot::move the velocity is (0, 0) or one component
\* has magnitude at least 20; both are zero whenever both were below 20 in
\* magnitude after damping and resolution
C3_SettlePerAxis ==
    Moved =>
        /\ (mVelX = 0 /\ mVelY = 0)
                \/ ~BelowThreshold(mVelX) \/ ~BelowThreshold(mVelY)
        /\ (BelowThreshold(last.res.x) /\ BelowThreshold(last.res.y))
                => (mVelX = 0 /\ mVelY = 0)

\* a move zeroed a velocity whose components were each below 20 while its
\* combined magnitude was not
C3_Witness ==
    /\ Moved
    /\ BelowThreshold(last.res.x) /\ BelowThreshold(last.res.y)
    /\ last.res.x * last.res.x + last.res.y * last.res.y >= (20 * FP) * (20 * FP)
    /\ mVelX = 0 /\ mVelY = 0

\* C4: the dot leaves rest only by a mouse release that applies a non-zero
\* impulse; a move of a dot at rest leaves it at rest; the dot comes to rest
\* only by the settle rule at the end of a move, applied to a velocity that
\* damping and resolution left non-zero
C4_RestTransitions ==
    [][ (pc = "run" /\ pc' = "run") =>
          /\ (AtRest(mVelX, mVelY) /\ ~AtRest(mVelX', mVelY'))
                => /\ last'.op = "event" /\ last'.e.type = "MOUSEBUTTONUP"
                   /\ mVelX' = (mouseDown.x - last'.e.x) * 2 * FP
                   /\ mVelY' = (mouseDown.y - last'.e.y) * 2 * FP
          /\ (AtRest(mVelX, mVelY) /\ last'.op = "move")
                => AtRest(mVelX', mVelY')
          /\ (~AtRest(mVelX, mVelY) /\ AtRest(mVelX', mVelY'))
                => /\ last'.op = "move"
                   /\ ~AtRest(last'.res.x, last'.res.y)
                   /\ BelowThreshold(last'.res.x)
                   /\ BelowThreshold(last'.res.y)
      ]_vars

\* a moving dot has just been brought to rest by a move
C4_Witness ==
    Moved /\ ~AtRest(last.pre.velX, last.pre.velY) /\ AtRest(mVelX, mVelY)

\* the case of C5: the circle was clear of the walls before the move, the
\* integrated x is inside [10, 1270] and the circle there overlaps a wall
WallBounceX ==
    /\ Moved
    /\ ~touchesWall(last.pre.collider, tileSet)
    /\ InsideX(IntegratedX)
    /\ touchesWall(TestedCircleX, tileSet)

\* C5 as stated: after a wall bounce on the horizontal axis the position x
\* is its value before integration and the velocity x after the step is
\* -(0.99 * old velocity x)
C5_Original ==
    WallBounceX =>
        mPosX = last.pre.posX /\ mVelX = -Damp(last.pre.velX)

\* C5 amended: after a wall bounce on the horizontal axis the position x is
\* its value before integration and the velocity x after resolution is
\* -(0.99 * old velocity x); after the step it is that value, unless the
\* settle rule zeroed both components
C5_WallBounce ==
    WallBounceX =>
        /\ mPosX = last.pre.posX
        /\ last.res.x = -Damp(last.pre.velX)
        /\ mVelX = IF BelowThreshold(last.res.x) /\ BelowThreshold(last.res.y)
                   THEN 0 ELSE -Damp(last.pre.velX)

\* a wall bounce after which the dot is still moving horizontally
C5_Witness == WallBounceX /\ mVelX # 0 /\ IntegratedX # last.pre.posX

\* C6: on each axis the lower bound is tested first, then the upper bound,
\* then the walls; a coordinate integrated out of bounds is set to the
\* bound, with the damped velocity negated once, whether or not the tested
\* circle overlaps a wall; inside the bounds the coordinate is reverted
\* exactly when the tested circle overlaps a wall
C6_FirstMatchWins ==
    Moved =>
        /\ IntegratedX < 10 * FP
              => mPosX = 10 * FP /\ last.res.x = -Damp(last.pre.velX)
        /\ IntegratedX > 1270 * FP
              => mPosX = 1270 * FP /\ last.res.x = -Damp(last.pre.velX)
        /\ (InsideX(IntegratedX) /\ touchesWall(TestedCircleX, tileSet))
              => mPosX = last.pre.posX /\ last.res.x = -Damp(last.pre.velX)
        /\ (InsideX(IntegratedX) /\ ~touchesWall(TestedCircleX, tileSet))
              => mPosX = IntegratedX /\ last.res.x = Damp(last.pre.velX)
        /\ IntegratedY < 10 * FP
              => mPosY = 10 * FP /\ last.res.y = -Damp(last.pre.velY)
        /\ IntegratedY > 950 * FP
              => mPosY = 950 * FP /\ last.res.y = -Damp(last.pre.velY)
        /\ (InsideY(IntegratedY) /\ touchesWall(TestedCircleY, tileSet))
              => mPosY = last.pre.posY /\ last.res.y = -Damp(last.pre.velY)
        /\ (InsideY(IntegratedY) /\ ~touchesWall(TestedCircleY, tileSet))
              => mPosY = IntegratedY /\ last.res.y = Damp(last.pre.velY)

\* a coordinate was integrated past the bottom bound to a place where the
\* circle overlaps a wall, and was set to the bound, not reverted
C6_Witness ==
    /\ Moved
    /\ IntegratedY > 950 * FP
    /\ touchesWall(TestedCircleY, tileSet)
    /\ mPosY = 950 * FP /\ last.pre.posY # 950 * FP
    /\ last.res.y = -Damp(last.pre.velY) /\ last.res.y # 0

\* C7 as stated: the collider's centre equals the position and its radius
\* is 10
C7_Original ==
    Running =>
        mCollider.x = mPosX /\ mCollider.y = mPosY /\ mCollider.r = 10 * FP

\* C7 amended: the collider's centre is the position with each coordinate
\* rounded toward zero to a whole number, and its radius is 10
C7_ColliderTracksPosition ==
    Running =>
        /\ mCollider.x % FP = 0 /\ mCollider.x <= mPosX
        /\ mPosX - mCollider.x < FP
        /\ mCollider.y % FP = 0 /\ mCollider.y <= mPosY
        /\ mPosY - mCollider.y < FP
        /\ mCollider.r = 10 * FP

\* a move left the dot at a position that is not a whole number, on both
\* axes
C7_Witness == Moved /\ mPosX % FP # 0 /\ mPosY % FP # 0

DistSqToRect(a, b) ==
    LET cx == IF a.x < b.x * FP THEN b.x * FP
              ELSE IF a.x > (b.x + b.w) * FP THEN (b.x + b.w) * FP ELSE a.x
        cy == IF a.y < b.y * FP THEN b.y * FP
              ELSE IF a.y > (b.y + b.h) * FP THEN (b.y + b.h) * FP ELSE a.y
    IN  (a.x - cx) * (a.x - cx) + (a.y - cy) * (a.y - cy)

CentreInRect(a, b) ==
    /\ a.x >= b.x * FP /\ a.x <= (b.x + b.w) * FP
    /\ a.y >= b.y * FP /\ a.y <= (b.y + b.h) * FP

Min(m, n) == IF m < n THEN m ELSE n

\* the distance from a centre inside rectangle b to the nearest edge of b
InnerEdgeDistance(a, b) ==
    Min(Min(a.x - b.x * FP, (b.x + b.w) * FP - a.x),
        Min(a.y - b.y * FP, (b.y + b.h) * FP - a.y))

\* the centre's distance from the nearest edge of b exceeds the radius
EdgeFartherThanRadius(a, b) ==
    IF CentreInRect(a, b)
    THEN InnerEdgeDistance(a, b) > a.r
    ELSE DistSqToRect(a, b) > a.r * a.r

----------------------------------------------------------------------------
(* LTimer *)

TimerElapsed == getTicks(timer, sdlTicks)

\* C11: while the timer is paused getTicks returns the elapsed value captured
\* at the pause, however far the tick counter has advanced; after unpause
\* getTicks is that value plus the ticks elapsed since the unpause; pause on a
\* stopped or already paused timer, and unpause on a timer that is not
\* paused, leave the timer as it was
C11_PauseFreezesElapsed ==
    /\ isPaused(timer) => TimerElapsed = tlast.atPause
    /\ isStarted(timer) /\ ~isPaused(timer) /\ tlast.resumed
        => TimerElapsed = Uint32(tlast.atPause + tlast.since)
    /\ tlast.op = "pause" /\ (~isStarted(tlast.pre) \/ isPaused(tlast.pre))
        => timer = tlast.pre
    /\ tlast.op = "unpause" /\ ~isPaused(tlast.pre)
        => timer = tlast.pre

\* a timer that ran, was paused while the counter advanced, was unpaused and
\* has run on since
C11_Witness ==
    /\ isStarted(timer) /\ ~isPaused(timer) /\ tlast.resumed
    /\ tlast.atPause > 0 /\ tlast.since > 0
    /\ tlast.advanced > tlast.atPause + tlast.since

----------------------------------------------------------------------------
(* Walls *)

ClearOfWalls(circle) == ~touchesWall(circle, tileSet)

\* C12: if the collider overlaps no wall tile before a call of Dot::move, it
\* overlaps no wall tile after the call, whatever the velocity, the time step
\* and the tile map
C12_NoWallEntry ==
    Moved /\ ClearOfWalls(last.pre.collider) => ClearOfWalls(mCollider)

----------------------------------------------------------------------------
(* Coming to rest *)

\* C13: once the mouse events have stopped, repeated calls of Dot::move bring
\* the dot to rest (velocity exactly (0, 0)) and it stays at rest for good;
\* a call on a dot at rest leaves it at rest where it is; every call
\* multiplies the magnitude of both velocity components by 0.99, with or
\* without a bounce, before the settle rule
C13_ComesToRest ==
    /\ <>[](Running => AtRest(mVelX, mVelY))
    /\ [][(MoveStep /\ AtRest(mVelX, mVelY))
            => (AtRest(mVelX', mVelY') /\ mPosX' = mPosX /\ mPosY' = mPosY)]_vars
    /\ [][MoveStep
            => (/\ Abs(last'.res.x) = Abs(Damp(mVelX))
                /\ Abs(last'.res.y) = Abs(Damp(mVelY)))]_vars

\* after the last gesture a dot whose vertical speed had been damped over
\* several calls, down to just above the threshold, has come to rest away
\* from where it started
C13_Witness ==
    /\ Moved /\ AtRest(mVelX, mVelY)
    /\ ~BelowThreshold(last.pre.velY) /\ BelowThreshold(Damp(last.pre.velY))
    /\ last.pre.velY % FP # 0
    /\ mPosY # ToFloat(DOT_HEIGHT \div 2)
    /\ ~pressed /\ gestures = MaxRestGestures

====
